---------------------------- MODULE Spec2Model ----------------------------
(* A model of src/src/lib.rs (museun/twitchapi): the Twitch API client,    *)
(* its request builder, its response unwrapper and its decoding adapters. *)
(*                                                                         *)
(* Text is a sequence of one-character strings.  A u64 is four base-10^5  *)
(* limbs, most significant first, so that 2^64-1 and the overflow of the  *)
(* checked arithmetic of u64::from_str are represented exactly.           *)
EXTENDS Integers, Sequences, FiniteSets, TLC

VARIABLES client, newIn, newOut, callers, calls, pin, pout

vars == <<client, newIn, newOut, callers, calls, pin, pout>>

-----------------------------------------------------------------------------
(* Bounds of the model *)

\* longest text handed to the numeric-string adapter (besides LongTexts)
MaxLen == 3
\* longest client-id / token text handed to Client::new
MaxHdrLen == 2
\* most values in one Helix call
MaxVals == 2
\* most elements in the data sequence of a Helix body
MaxData == 2
\* the same bound when two callers run concurrently
MaxValsConc == 1

-----------------------------------------------------------------------------
(* Text helpers *)

Digits == <<"0", "1", "2", "3", "4", "5", "6", "7", "8", "9">>

IsDigit(c) == \E i \in 1..10 : Digits[i] = c

DigitVal(c) == (CHOOSE i \in 1..10 : Digits[i] = c) - 1

\* all sequences over S of length at most n
SeqsUpTo(S, n) == UNION {[1..k -> S] : k \in 0..n}

Tail2(s, i) == SubSeq(s, i, Len(s))

-----------------------------------------------------------------------------
(* u64 with its width: limbs base 10^5, checked_mul / checked_add *)

Base == 100000

U64Max == <<18446, 74407, 37095, 51615>>

U64Zero == <<0, 0, 0, 0>>

U64FromNat(n) == <<0, 0, n \div Base, n % Base>>

\* a <= b on (possibly unnormalised top limb) limb tuples
LimbsLeq(a, b) ==
    \/ a[1] < b[1]
    \/ a[1] = b[1] /\ a[2] < b[2]
    \/ a[1] = b[1] /\ a[2] = b[2] /\ a[3] < b[3]
    \/ a[1] = b[1] /\ a[2] = b[2] /\ a[3] = b[3] /\ a[4] <= b[4]

\* u64::checked_mul(v, 10)
CheckedMul10(v) ==
    LET l4 == v[4] * 10
        l3 == v[3] * 10 + (l4 \div Base)
        l2 == v[2] * 10 + (l3 \div Base)
        l1 == v[1] * 10 + (l2 \div Base)
        r  == <<l1, l2 % Base, l3 % Base, l4 % Base>>
    IN  [ok |-> LimbsLeq(r, U64Max), v |-> r]

\* u64::checked_add(v, d) for a digit d
CheckedAdd(v, d) ==
    LET l4 == v[4] + d
        l3 == v[3] + (l4 \div Base)
        l2 == v[2] + (l3 \div Base)
        l1 == v[1] + (l2 \div Base)
        r  == <<l1, l2 % Base, l3 % Base, l4 % Base>>
    IN  [ok |-> LimbsLeq(r, U64Max), v |-> r]

ParseOk(v) == [ok |-> TRUE, v |-> v, err |-> "none"]

ParseErr(e) == [ok |-> FALSE, v |-> U64Zero, err |-> e]

\* the digit loop of u64::from_str: digit check, checked_mul, checked_add
RECURSIVE ParseDigits(_, _, _)
ParseDigits(s, i, acc) ==
    IF i > Len(s) THEN ParseOk(acc)
    ELSE IF ~IsDigit(s[i]) THEN ParseErr("InvalidDigit")
    ELSE LET m == CheckedMul10(acc)
         IN  IF ~m.ok THEN ParseErr("PosOverflow")
             ELSE LET a == CheckedAdd(m.v, DigitVal(s[i]))
                  IN  IF ~a.ok THEN ParseErr("PosOverflow")
                      ELSE ParseDigits(s, i + 1, a.v)

\* a leading "+" is skipped; "-" is not a sign of an unsigned type
SkipSign(s) == IF s[1] = "+" THEN Tail2(s, 2) ELSE s

\* <u64 as FromStr>::from_str, which from_str (lib.rs:276) applies to the text
ParseU64(s) ==
    IF Len(s) = 0 THEN ParseErr("Empty")
    ELSE IF Len(s) = 1 /\ s[1] \in {"+", "-"} THEN ParseErr("InvalidDigit")
    ELSE ParseDigits(SkipSign(s), 1, U64Zero)

-----------------------------------------------------------------------------
(* time::parse(text + " +0000", "%FT%TZ %z") *)

UtcSuffix == <<" ", "+", "0", "0", "0", "0">>

Num2(s, i) == DigitVal(s[i]) * 10 + DigitVal(s[i + 1])

Num4(s, i) == Num2(s, i) * 100 + Num2(s, i + 2)

IsLeap(y) == (y % 4 = 0 /\ y % 100 # 0) \/ y % 400 = 0

DaysInMonth(y, m) ==
    IF m = 2 THEN (IF IsLeap(y) THEN 29 ELSE 28)
    ELSE IF m \in {4, 6, 9, 11} THEN 30 ELSE 31

NoTime == [year |-> 0, month |-> 0, day |-> 0, hour |-> 0, minute |-> 0,
           second |-> 0, offset |-> 0]

\* the literals and digit runs of "%Y-%m-%dT%H:%M:%SZ %z"
TimeShapeOk(s) ==
    /\ Len(s) = 26
    /\ \A i \in {1, 2, 3, 4, 6, 7, 9, 10, 12, 13, 15, 16, 18, 19, 23, 24, 25, 26} :
          IsDigit(s[i])
    /\ s[5] = "-" /\ s[8] = "-" /\ s[11] = "T"
    /\ s[14] = ":" /\ s[17] = ":" /\ s[20] = "Z" /\ s[21] = " "
    /\ s[22] \in {"+", "-"}

TimeParse(s) ==
    IF ~TimeShapeOk(s) THEN [ok |-> FALSE, v |-> NoTime]
    ELSE LET y  == Num4(s, 1)
             mo == Num2(s, 6)
             d  == Num2(s, 9)
             h  == Num2(s, 12)
             mi == Num2(s, 15)
             se == Num2(s, 18)
             off == (Num2(s, 23) * 60 + Num2(s, 25)) * (IF s[22] = "-" THEN -1 ELSE 1)
         IN  IF /\ mo \in 1..12
                /\ d \in 1..DaysInMonth(y, mo)
                /\ h \in 0..23 /\ mi \in 0..59 /\ se \in 0..59
                /\ Num2(s, 25) \in 0..59
             THEN [ok |-> TRUE,
                   v |-> [year |-> y, month |-> mo, day |-> d, hour |-> h,
                          minute |-> mi, second |-> se, offset |-> off]]
             ELSE [ok |-> FALSE, v |-> NoTime]

-----------------------------------------------------------------------------
(* JSON values of the wire, and serde's errors *)

JStr(s) == [t |-> "str", s |-> s, n |-> 0]

JNum(n) == [t |-> "num", s |-> <<>>, n |-> n]

JNull == [t |-> "null", s |-> <<>>, n |-> 0]

JAbsent == [t |-> "absent", s |-> <<>>, n |-> 0]

\* What a serde_json error says: its message, the field it names (if it
\* names one) and the wire value it quotes (if it quotes one).
DeErr(msg, field, raw) == [msg |-> msg, field |-> field, raw |-> raw]

NoErr == DeErr("none", "", <<>>)

FieldOk(v) == [ok |-> TRUE, v |-> v, err |-> NoErr]

FieldErr(e) == [ok |-> FALSE, v |-> <<>>, err |-> e]

\* String::deserialize on the value of field f
DeString(f, j) ==
    IF j.t = "absent" THEN FieldErr(DeErr("missing field", f, <<>>))
    ELSE IF j.t # "str" THEN FieldErr(DeErr("invalid type", "", <<j>>))
    ELSE FieldOk(j.s)

\* u64::deserialize (viewer_count): a JSON number
DeU64(f, j) ==
    IF j.t = "absent" THEN FieldErr(DeErr("missing field", f, <<>>))
    ELSE IF j.t # "num" THEN FieldErr(DeErr("invalid type", "", <<j>>))
    ELSE FieldOk(U64FromNat(j.n))

\* Option<String>::deserialize (type_): absent or null is None
NoneStr == <<"None">>

SomeStr(s) == <<"Some", s>>

DeOptString(f, j) ==
    IF j.t \in {"absent", "null"} THEN FieldOk(NoneStr)
    ELSE IF j.t # "str" THEN FieldErr(DeErr("invalid type", "", <<j>>))
    ELSE FieldOk(SomeStr(j.s))

\* (mutant) a text that does not parse is coerced to zero
from_str_mut_coerce(f, j) ==
    LET s == DeString(f, j)
    IN  IF ~s.ok THEN s
        ELSE LET p == ParseU64(s.v)
             IN  FieldOk(p.v)

\* lib.rs:276 from_str: String::deserialize(deser)?.parse().map_err(custom)
from_str(f, j) ==
    LET s == DeString(f, j)
    IN  IF ~s.ok THEN s
        ELSE LET p == ParseU64(s.v)
             IN  IF p.ok THEN FieldOk(p.v)
                 ELSE FieldErr(DeErr(p.err, "", <<>>))

\* lib.rs:267 assume_utc_date_time
assume_utc_date_time(f, j) ==
    LET s == DeString(f, j)
    IN  IF ~s.ok THEN s
        ELSE LET p == TimeParse(s.v \o UtcSuffix)
             IN  IF p.ok THEN FieldOk(p.v)
                 ELSE FieldErr(DeErr("time parse error", "", <<>>))

-----------------------------------------------------------------------------
(* Domain records (lib.rs:44-105) and their derived decoders / encoders *)

\* index of the first field result that failed
FirstBad(rs) == CHOOSE i \in 1..Len(rs) : ~rs[i].ok /\ \A k \in 1..(i - 1) : rs[k].ok

AllOk(rs) == \A i \in 1..Len(rs) : rs[i].ok

DeOk(v) == [ok |-> TRUE, v |-> v, err |-> NoErr]

DeFail(e) == [ok |-> FALSE, v |-> <<>>, err |-> e]

\* #[derive(Deserialize)] struct User
DecodeUser(w) ==
    LET rs == << from_str("id", w.id),
                 DeString("login", w.login),
                 DeString("display_name", w.display_name) >>
    IN  IF AllOk(rs)
        THEN DeOk([id |-> rs[1].v, login |-> rs[2].v, display_name |-> rs[3].v])
        ELSE DeFail(rs[FirstBad(rs)].err)

\* #[derive(Deserialize)] struct Stream
DecodeStream(w) ==
    LET rs == << from_str("id", w.id),
                 from_str("user_id", w.user_id),
                 DeString("user_name", w.user_name),
                 from_str("game_id", w.game_id),
                 DeOptString("type", w.type),
                 DeString("title", w.title),
                 DeU64("viewer_count", w.viewer_count),
                 assume_utc_date_time("started_at", w.started_at) >>
    IN  IF AllOk(rs)
        THEN DeOk([id |-> rs[1].v, user_id |-> rs[2].v, user_name |-> rs[3].v,
                   game_id |-> rs[4].v, type_ |-> rs[5].v, title |-> rs[6].v,
                   viewer_count |-> rs[7].v, started_at |-> rs[8].v])
        ELSE DeFail(rs[FirstBad(rs)].err)

\* Vec<String>::deserialize of one role bucket
JArr(a) == [t |-> "arr", a |-> a]

JNoArr == [t |-> "absent", a |-> <<>>]

DeVecString(f, b) ==
    IF b.t = "absent" THEN FieldErr(DeErr("missing field", f, <<>>))
    ELSE IF b.t # "arr" THEN FieldErr(DeErr("invalid type", "", <<>>))
    ELSE FieldOk(b.a)

\* usize::deserialize (chatter_count of the envelope)
DeUsize(f, j) ==
    IF j.t = "absent" THEN FieldErr(DeErr("missing field", f, <<>>))
    ELSE IF j.t # "num" THEN FieldErr(DeErr("invalid type", "", <<j>>))
    ELSE FieldOk(j.n)

\* the value of a #[serde(skip_deserializing)] field after the decode: what
\* the wire carries for it is not read, Default::default() is stored
SkipDeserializingStr(j) == <<>>

SkipDeserializingNum(j) == 0

\* #[derive(Deserialize)] struct Users
DecodeUsers(w) ==
    LET rs == << DeVecString("broadcaster", w.broadcaster),
                 DeVecString("vips", w.vips),
                 DeVecString("moderators", w.moderators),
                 DeVecString("staff", w.staff),
                 DeVecString("admins", w.admins),
                 DeVecString("global_mods", w.global_mods),
                 DeVecString("viewers", w.viewers) >>
    IN  IF AllOk(rs)
        THEN DeOk([room |-> SkipDeserializingStr(w.room),
                   chatter_count |-> SkipDeserializingNum(w.chatter_count),
                   broadcaster |-> rs[1].v, vips |-> rs[2].v,
                   moderators |-> rs[3].v, staff |-> rs[4].v,
                   admins |-> rs[5].v, global_mods |-> rs[6].v,
                   viewers |-> rs[7].v])
        ELSE DeFail(rs[FirstBad(rs)].err)

\* (mutant) the elements decoded before the first failure are kept
DecodeVec_mut_partial(rs) ==
    IF AllOk(rs) THEN DeOk([i \in 1..Len(rs) |-> rs[i].v])
    ELSE DeOk([i \in 1..(FirstBad(rs) - 1) |-> rs[i].v])

\* Vec<T>::deserialize: elements in order, the first failure fails the whole
DecodeVec(rs) ==
    IF AllOk(rs) THEN DeOk([i \in 1..Len(rs) |-> rs[i].v])
    ELSE DeFail(rs[FirstBad(rs)].err)

\* u64 -> JSON number, for the values the model encodes (below 2^31)
U64ToNat(v) == v[3] * Base + v[4]

\* the value time's own Serialize writes for an OffsetDateTime: not a string
JCompound == [t |-> "compound", s |-> <<>>, n |-> 0]

EncodeOptString(o) == IF o = NoneStr THEN JNull ELSE JStr(o[2])

\* #[derive(Serialize)] struct User: no serialize_with, id is written as a number
EncodeUser(u) ==
    [id |-> JNum(U64ToNat(u.id)), login |-> JStr(u.login),
     display_name |-> JStr(u.display_name)]

\* #[derive(Serialize)] struct Stream
EncodeStream(s) ==
    [id |-> JNum(U64ToNat(s.id)), user_id |-> JNum(U64ToNat(s.user_id)),
     user_name |-> JStr(s.user_name), game_id |-> JNum(U64ToNat(s.game_id)),
     type |-> EncodeOptString(s.type_), title |-> JStr(s.title),
     viewer_count |-> JNum(U64ToNat(s.viewer_count)),
     started_at |-> JCompound]

-----------------------------------------------------------------------------
(* Client::new (lib.rs:126-150) *)

\* http::HeaderValue::from_str: every byte is visible ASCII or above, or a tab
HeaderByteOk(b) == (b >= 32 /\ b # 127) \/ b = 9

HeaderValueOk(bytes) == \A i \in 1..Len(bytes) : HeaderByteOk(bytes[i])

\* format!("Bearer {}", token), as bytes
Bearer(token) == <<66, 101, 97, 114, 101, 114, 32>> \o token

NoClient == [built |-> FALSE, headers |-> {}]

NewOk(c) == [state |-> "Ok", error |-> "none", client |-> c]

NewErr(e) == [state |-> "Err", error |-> e, client |-> NoClient]

NotCalled == [state |-> "none", error |-> "none", client |-> NoClient]

\* the default header map of the built client
DefaultHeaders(auth) ==
    { <<"Client-ID", auth.client_id>>,
      <<"Authorization", Bearer(auth.oauth_token)>> }

\* (mutant) the header values are not validated at construction
NewResult_mut_late(auth, buildOk) ==
    IF ~buildOk THEN NewErr("Reqwest")
    ELSE NewOk([built |-> TRUE, headers |-> DefaultHeaders(auth)])

\* buildOk: whether reqwest's ClientBuilder::build succeeds (its TLS backend)
NewResult(auth, buildOk) ==
    IF ~HeaderValueOk(auth.client_id) THEN NewErr("InvalidClientId")
    ELSE IF ~HeaderValueOk(Bearer(auth.oauth_token)) THEN NewErr("InvalidOAuthToken")
    ELSE IF ~buildOk THEN NewErr("Reqwest")
    ELSE NewOk([built |-> TRUE, headers |-> DefaultHeaders(auth)])

-----------------------------------------------------------------------------
(* Request builder (lib.rs:246-257, 224-230) *)

BASE_URI == "https://api.twitch.tv/helix"

Ep_streams == <<"s", "t", "r", "e", "a", "m", "s">>

Ep_users == <<"u", "s", "e", "r", "s">>

\* format!("{}/{}", Self::BASE_URI, ep)
HelixUrl(ep) == [prefix |-> BASE_URI, sep |-> "/", mid |-> ep, suffix |-> ""]

\* format!("https://tmi.twitch.tv/group/user/{}/chatters", room)
ChattersUrl(room) ==
    [prefix |-> "https://tmi.twitch.tv/group/user", sep |-> "/", mid |-> room,
     suffix |-> "/chatters"]

\* self.client.get(url)
Get(url) == [url |-> url, query |-> <<>>, headers |-> {}]

NoReq == Get([prefix |-> "", sep |-> "", mid |-> <<>>, suffix |-> ""])

\* std::iter::repeat(key).zip(values)
RepeatZip(key, values) == [i \in 1..Len(values) |-> <<key, values[i]>>]

\* (mutant) the pair is put in front of the query string
Query_mut_front(req, pair) == [req EXCEPT !.query = <<pair>> \o @]

\* req.query(&[(key, val)]): one more pair at the end of the query string
Query(req, pair) == [req EXCEPT !.query = Append(@, pair)]

\* for (key, val) in map { req = req.query(&[(key, val)]); }
RECURSIVE QueryAll(_, _, _)
QueryAll(req, map, i) ==
    IF i > Len(map) THEN req
    ELSE QueryAll(Query(req, map[i]), map, i + 1)

\* (mutant) the default headers are not applied
Execute_mut_bare(cl, req) == req

\* the request the transport is handed: the client's default headers are
\* added to the headers of the request (which sets none itself)
Execute(cl, req) == [req EXCEPT !.headers = @ \cup cl.headers]

\* the request half of get_response
HelixRequest(ep, map) == QueryAll(Get(HelixUrl(ep)), map, 1)

-----------------------------------------------------------------------------
(* Response unwrapper (lib.rs:232-243, 256-262) *)

NoError == [variant |-> "none", kind |-> "none", de |-> NoErr]

NoResult == [ok |-> FALSE, val |-> <<>>, err |-> NoError]

ResOk(v) == [ok |-> TRUE, val |-> v, err |-> NoError]

\* impl From<reqwest::Error> for Error: every failure of a request is Reqwest
ResErr(kind, de) ==
    [ok |-> FALSE, val |-> <<>>, err |-> [variant |-> "Reqwest", kind |-> kind, de |-> de]]

\* Response::error_for_status: an error for 4xx and 5xx
IsErrorStatus(st) == st \in 400..599

NoChatters ==
    [room |-> JAbsent, chatter_count |-> JAbsent, broadcaster |-> JNoArr,
     vips |-> JNoArr, moderators |-> JNoArr, staff |-> JNoArr,
     admins |-> JNoArr, global_mods |-> JNoArr, viewers |-> JNoArr]

Garbage == [valid |-> FALSE, data |-> <<>>, chatter_count |-> JAbsent, chatters |-> NoChatters]

HelixBody(data) ==
    [valid |-> TRUE, data |-> data, chatter_count |-> JAbsent, chatters |-> NoChatters]

ChattersBody(n, ch) == [valid |-> TRUE, data |-> <<>>, chatter_count |-> n, chatters |-> ch]

TransportFailure == [terr |-> TRUE, status |-> 0, body |-> Garbage]

Reply(st, body) == [terr |-> FALSE, status |-> st, body |-> body]

SyntaxErr == DeErr("syntax", "", <<>>)

\* Response::json::<Data>() with Data { data: Vec<Stream> } / { data: Vec<User> }
JsonData(kind, body) ==
    IF ~body.valid THEN DeFail(SyntaxErr)
    ELSE DecodeVec([i \in 1..Len(body.data) |->
                      IF kind = "stream" THEN DecodeStream(body.data[i])
                      ELSE DecodeUser(body.data[i])])

\* Response::json::<Data>() with Data { chatter_count: usize, chatters: Users }
JsonChatters(body) ==
    IF ~body.valid THEN DeFail(SyntaxErr)
    ELSE LET n  == DeUsize("chatter_count", body.chatter_count)
             ch == DecodeUsers(body.chatters)
         IN  IF ~n.ok THEN DeFail(n.err)
             ELSE IF ~ch.ok THEN DeFail(ch.err)
             ELSE DeOk([chatter_count |-> n.v, chatters |-> ch.v])

\* the response half of get_response, then .map(|data: Data| data.data)
HelixResult(kind, resp) ==
    IF resp.terr THEN ResErr("request", NoErr)
    ELSE IF IsErrorStatus(resp.status) THEN ResErr("status", NoErr)
    ELSE LET d == JsonData(kind, resp.body)
         IN  IF d.ok THEN ResOk(d.v) ELSE ResErr("decode", d.err)

\* (mutant) the room is left as the decode of the chatters object gave it
StitchUsers_mut_wire(room, data) ==
    [data.chatters EXCEPT !.chatter_count = data.chatter_count]

\* Users { room: room.to_string(), chatter_count: data.chatter_count, ..data.chatters }
StitchUsers(room, data) ==
    [data.chatters EXCEPT !.room = room, !.chatter_count = data.chatter_count]

\* the response half of get_users_for
UsersForResult(room, resp) ==
    IF resp.terr THEN ResErr("request", NoErr)
    ELSE IF IsErrorStatus(resp.status) THEN ResErr("status", NoErr)
    ELSE LET d == JsonChatters(resp.body)
         IN  IF d.ok THEN ResOk(StitchUsers(room, d.v)) ELSE ResErr("decode", d.err)

-----------------------------------------------------------------------------
(* Inputs: what callers pass and what the server may answer *)

T_bob == <<"b", "o", "b">>

T_Bob == <<"B", "o", "b">>

T_amy == <<"a", "m", "y">>

T_live == <<"l", "i", "v", "e">>

T_t == <<"t">>

T_x == <<"x">>

T_y == <<"y">>

T_z == <<"z">>

T_foo == <<"f", "o", "o">>

T_bar == <<"b", "a", "r">>

T_evil == <<"e", "v", "i", "l">>

Time_ok == <<"2", "0", "2", "3", "-", "0", "1", "-", "0", "1", "T", "0", "0", ":", "0", "0", ":", "0", "0", "Z">>

Time_leap == <<"2", "0", "2", "4", "-", "0", "2", "-", "2", "9", "T", "2", "3", ":", "5", "9", ":", "5", "9", "Z">>

Time_noZ == <<"2", "0", "2", "3", "-", "0", "1", "-", "0", "1", "T", "0", "0", ":", "0", "0", ":", "0", "0">>

WS1 == [id |-> JStr(<<"1", "2", "3">>), user_id |-> JStr(<<"4", "5", "6">>),
        user_name |-> JStr(T_bob), game_id |-> JStr(<<"0">>), type |-> JStr(T_live),
        title |-> JStr(T_t), viewer_count |-> JNum(10), started_at |-> JStr(Time_ok)]

WS2 == [WS1 EXCEPT !.id = JStr(<<"7">>), !.type = JNull, !.started_at = JStr(Time_leap)]

WSBadTime == [WS1 EXCEPT !.started_at = JStr(Time_noZ)]

WSBadId == [WS1 EXCEPT !.user_id = JStr(<<"-", "5">>)]

WU1 == [id |-> JStr(<<"1", "2", "3">>), login |-> JStr(T_bob), display_name |-> JStr(T_Bob)]

WU2 == [id |-> JStr(<<"4", "5", "6">>), login |-> JStr(T_amy), display_name |-> JStr(T_amy)]

WUBad == [id |-> JStr(<<"1", "2", "a">>), login |-> JStr(T_bob), display_name |-> JStr(T_Bob)]

\* a chatters object that also carries a room and a chatter_count of its own
WC1 == [room |-> JStr(T_evil), chatter_count |-> JNum(99),
        broadcaster |-> JArr(<<T_x>>), vips |-> JArr(<<>>),
        moderators |-> JArr(<<T_y>>), staff |-> JArr(<<>>), admins |-> JArr(<<>>),
        global_mods |-> JArr(<<>>), viewers |-> JArr(<<T_z, T_amy>>)]

WC2 == [WC1 EXCEPT !.room = JAbsent, !.chatter_count = JAbsent,
                   !.vips = JArr(<<T_amy, T_z>>), !.viewers = JArr(<<>>)]

WCBad == [WC1 EXCEPT !.viewers = JNoArr]

Conc == Cardinality(callers) > 1

Vals == {<<"a">>, <<"b">>}

ValueSeqs == SeqsUpTo(Vals, IF Conc THEN MaxValsConc ELSE MaxVals)

Rooms == IF Conc THEN {T_foo} ELSE {T_foo, T_bar}

Statuses == IF Conc THEN {200, 500} ELSE {200, 300, 404, 500}

StreamElems == {WS1, WS2, WSBadTime, WSBadId}

UserElems == {WU1, WU2, WUBad}

\* with two callers: no element, a good one, a good one followed by a bad one
StreamData ==
    IF Conc THEN {<<>>, <<WS1>>, <<WS1, WSBadTime>>} ELSE SeqsUpTo(StreamElems, MaxData)

UserData ==
    IF Conc THEN {<<>>, <<WU1>>, <<WU1, WUBad>>} ELSE SeqsUpTo(UserElems, MaxData)

ChatterBodies ==
    IF Conc THEN {ChattersBody(JNum(3), ch) : ch \in {WC1, WCBad}}
    ELSE {ChattersBody(n, ch) : n \in {JNum(3), JStr(<<"3">>)}, ch \in {WC1, WC2, WCBad}}

KindOf(op) ==
    IF op \in {"get_streams", "get_streams_from_id"} THEN "stream"
    ELSE IF op \in {"get_users", "get_users_from_id"} THEN "user"
    ELSE "chatters"

Bodies(op) ==
    {Garbage} \cup
    (IF KindOf(op) = "stream" THEN {HelixBody(d) : d \in StreamData}
     ELSE IF KindOf(op) = "user" THEN {HelixBody(d) : d \in UserData}
     ELSE ChatterBodies)

Responses(op) ==
    {TransportFailure} \cup {Reply(st, b) : st \in Statuses, b \in Bodies(op)}

HdrBytes == {9, 10, 97, 127}

HdrTexts == SeqsUpTo(HdrBytes, MaxHdrLen)

Auths == {[client_id |-> i, oauth_token |-> o] : i \in HdrTexts, o \in HdrTexts}

\* the credentials of the clients the operations are run with
OpsAuths == {[client_id |-> <<97>>, oauth_token |-> o] : o \in {<<>>, <<97, 9>>}}

Alphabet == {"0", "1", "9", "+", "-", "a", " "}

LongTexts == {
    <<"1", "8", "4", "4", "6", "7", "4", "4", "0", "7", "3", "7", "0", "9", "5", "5", "1", "6", "1", "5">>,
    <<"1", "8", "4", "4", "6", "7", "4", "4", "0", "7", "3", "7", "0", "9", "5", "5", "1", "6", "1", "6">>,
    <<"9", "9", "9", "9", "9", "9", "9", "9", "9", "9", "9", "9", "9", "9", "9", "9", "9", "9", "9", "9">>,
    <<"+", "1", "8", "4", "4", "6", "7", "4", "4", "0", "7", "3", "7", "0", "9", "5", "5", "1", "6", "1", "5">>,
    <<"0", "0", "0", "0", "0", "0", "0", "0", "0", "0", "0", "0", "0", "0", "0", "0", "0", "0", "0", "0", "1">>,
    <<"1", "8", "4", "4", "6", "7", "4", "4", "0", "7", "3", "7", "0", "9", "5", "5", "1", "6", "1", "5", "0">> }

Texts == SeqsUpTo(Alphabet, MaxLen) \cup LongTexts

UserRecs ==
    {[id |-> U64FromNat(n), login |-> T_bob, display_name |-> T_Bob] : n \in {0, 123}}

StreamRecs ==
    {[id |-> U64FromNat(123), user_id |-> U64FromNat(456), user_name |-> T_bob,
      game_id |-> U64FromNat(0), type_ |-> ty, title |-> T_t,
      viewer_count |-> U64FromNat(10),
      started_at |-> [year |-> 2023, month |-> 1, day |-> 1, hour |-> 0,
                      minute |-> 0, second |-> 0, offset |-> 0]] :
       ty \in {NoneStr, SomeStr(T_live)}}

-----------------------------------------------------------------------------
(* The state machine *)

Callers == {1, 2}

NoResp == [terr |-> FALSE, status |-> 0, body |-> Garbage]

IdleCall == [pc |-> "idle", op |-> "none", vals |-> <<>>, room |-> <<>>,
             req |-> NoReq, nreq |-> 0, resp |-> NoResp, result |-> NoResult]

NoAuth == [client_id |-> <<>>, oauth_token |-> <<>>]

NoIn == [kind |-> "none", text |-> <<>>, rec |-> <<>>]

NoOut == [kind |-> "none", res |-> <<>>]

\* (mutant) one request builder is shared by the callers: the pairs of the
\* requests in flight are still in it
Issue_mut_shared(cs, c, op, vals, room, req) ==
    LET others == {o \in Callers \ {c} : cs[o].pc = "awaiting"}
        left   == IF others = {} THEN <<>> ELSE cs[CHOOSE o \in others : TRUE].req.query
    IN  [cs EXCEPT ![c] = [pc |-> "awaiting", op |-> op, vals |-> vals, room |-> room,
                           req |-> Execute(client, [req EXCEPT !.query = left \o @]),
                           nreq |-> @.nreq + 1,
                           resp |-> NoResp, result |-> NoResult]]

\* the call record once the request is handed to the transport (execute)
Issue(cs, c, op, vals, room, req) ==
    [cs EXCEPT ![c] = [pc |-> "awaiting", op |-> op, vals |-> vals, room |-> room,
                       req |-> Execute(client, req), nreq |-> @.nreq + 1,
                       resp |-> NoResp, result |-> NoResult]]

\* (mutant) a failed attempt is sent once more
Finish_mut_retry(call, resp) ==
    LET r == IF KindOf(call.op) = "chatters" THEN UsersForResult(call.room, resp)
             ELSE HelixResult(KindOf(call.op), resp)
    IN  [call EXCEPT !.pc = "done", !.resp = resp, !.result = r,
                     !.nreq = IF r.ok THEN @ ELSE @ + 1]

\* the call record once the awaited response is there: the operation returns
Finish(call, resp) ==
    [call EXCEPT !.pc = "done", !.resp = resp,
                 !.result = IF KindOf(call.op) = "chatters"
                            THEN UsersForResult(call.room, resp)
                            ELSE HelixResult(KindOf(call.op), resp)]

CanCall(c) == c \in callers /\ client.built /\ calls[c].pc = "idle"

\* lib.rs:153: get_response("streams", repeat("user_login").zip(values)), up to the await
get_streams(c) ==
    /\ CanCall(c)
    /\ \E values \in ValueSeqs :
          calls' = Issue(calls, c, "get_streams", values, <<>>,
                         HelixRequest(Ep_streams, RepeatZip("user_login", values)))
    /\ UNCHANGED <<client, newIn, newOut, callers, pin, pout>>

\* lib.rs:169: get_response("streams", repeat("user_id").zip(values)), up to the await
get_streams_from_id(c) ==
    /\ CanCall(c)
    /\ \E values \in ValueSeqs :
          calls' = Issue(calls, c, "get_streams_from_id", values, <<>>,
                         HelixRequest(Ep_streams, RepeatZip("user_id", values)))
    /\ UNCHANGED <<client, newIn, newOut, callers, pin, pout>>

\* lib.rs:185: get_response("users", repeat("login").zip(values)), up to the await
get_users(c) ==
    /\ CanCall(c)
    /\ \E values \in ValueSeqs :
          calls' = Issue(calls, c, "get_users", values, <<>>,
                         HelixRequest(Ep_users, RepeatZip("login", values)))
    /\ UNCHANGED <<client, newIn, newOut, callers, pin, pout>>

\* lib.rs:201: get_response("users", repeat("id").zip(values)), up to the await
get_users_from_id(c) ==
    /\ CanCall(c)
    /\ \E values \in ValueSeqs :
          calls' = Issue(calls, c, "get_users_from_id", values, <<>>,
                         HelixRequest(Ep_users, RepeatZip("id", values)))
    /\ UNCHANGED <<client, newIn, newOut, callers, pin, pout>>

\* lib.rs:217: the request of get_users_for, up to the await
get_users_for(c) ==
    /\ CanCall(c)
    /\ \E room \in Rooms :
          calls' = Issue(calls, c, "get_users_for", <<>>, room, Get(ChattersUrl(room)))
    /\ UNCHANGED <<client, newIn, newOut, callers, pin, pout>>

\* the transport answers the awaited request and the operation runs to its end
Resume(c) ==
    /\ c \in callers
    /\ calls[c].pc = "awaiting"
    /\ \E resp \in Responses(calls[c].op) :
          calls' = [calls EXCEPT ![c] = Finish(calls[c], resp)]
    /\ UNCHANGED <<client, newIn, newOut, callers, pin, pout>>

\* Client::new(auth)
New ==
    /\ newOut.state = "none"
    /\ \E auth \in Auths, buildOk \in BOOLEAN :
          /\ newIn' = auth
          /\ newOut' = NewResult(auth, buildOk)
          /\ client' = NewResult(auth, buildOk).client
    /\ UNCHANGED <<callers, calls, pin, pout>>

\* one numeric-string field is decoded
DecodeField ==
    /\ pin.kind = "none"
    /\ \E s \in Texts :
          /\ pin' = [kind |-> "text", text |-> s, rec |-> <<>>]
          /\ pout' = [kind |-> "text", res |-> from_str("id", JStr(s))]
    /\ UNCHANGED <<client, newIn, newOut, callers, calls>>

\* a User is encoded by its Serialize and decoded by its Deserialize
RoundTripUser ==
    /\ pin.kind = "none"
    /\ \E u \in UserRecs :
          /\ pin' = [kind |-> "user", text |-> <<>>, rec |-> u]
          /\ pout' = [kind |-> "user", res |-> DecodeUser(EncodeUser(u))]
    /\ UNCHANGED <<client, newIn, newOut, callers, calls>>

\* a Stream is encoded by its Serialize and decoded by its Deserialize
RoundTripStream ==
    /\ pin.kind = "none"
    /\ \E s \in StreamRecs :
          /\ pin' = [kind |-> "stream", text |-> <<>>, rec |-> s]
          /\ pout' = [kind |-> "stream", res |-> DecodeStream(EncodeStream(s))]
    /\ UNCHANGED <<client, newIn, newOut, callers, calls>>

InitIdle ==
    /\ calls = [c \in Callers |-> IdleCall]
    /\ pin = NoIn
    /\ pout = NoOut

\* a client built from legal credentials, used by one caller
Init ==
    /\ \E auth \in OpsAuths :
          /\ newIn = auth
          /\ newOut = NewResult(auth, TRUE)
          /\ client = NewResult(auth, TRUE).client
    /\ callers = {1}
    /\ InitIdle

\* the same client shared by two callers
InitConc ==
    /\ \E auth \in {a \in OpsAuths : a.oauth_token # <<>>} :
          /\ newIn = auth
          /\ newOut = NewResult(auth, TRUE)
          /\ client = NewResult(auth, TRUE).client
    /\ callers = Callers
    /\ InitIdle

\* nothing is built yet
InitNew ==
    /\ newIn = NoAuth
    /\ newOut = NotCalled
    /\ client = NoClient
    /\ callers = {}
    /\ InitIdle

Next ==
    \E c \in Callers :
        \/ get_streams(c)
        \/ get_streams_from_id(c)
        \/ get_users(c)
        \/ get_users_from_id(c)
        \/ get_users_for(c)
        \/ Resume(c)

NextDecode == DecodeField \/ RoundTripUser \/ RoundTripStream

Spec == Init /\ [][Next]_vars

SpecConc == InitConc /\ [][Next]_vars

SpecNew == InitNew /\ [][New]_vars

SpecDecode == InitNew /\ [][NextDecode]_vars

-----------------------------------------------------------------------------
(* Claims *)

Done(c) == c \in callers /\ calls[c].pc = "done"

Issued(c) == c \in callers /\ calls[c].pc \in {"awaiting", "done"}

AllDigits(s) == \A i \in 1..Len(s) : IsDigit(s[i])

PlusStripped(s) == IF Len(s) > 0 /\ s[1] = "+" THEN Tail2(s, 2) ELSE s

RECURSIVE StripZeros(_)
StripZeros(s) == IF Len(s) > 1 /\ s[1] = "0" THEN StripZeros(Tail(s)) ELSE s

\* the decimal digits of 2^64 - 1
MaxDigits == <<1, 8, 4, 4, 6, 7, 4, 4, 0, 7, 3, 7, 0, 9, 5, 5, 1, 6, 1, 5>>

\* the digits of z as a 20-digit number, zero-padded on the left
Pad20(z) ==
    [k \in 1..20 |-> IF k <= 20 - Len(z) THEN 0 ELSE DigitVal(z[k - (20 - Len(z))])]

LexLeq(a, b) ==
    \/ a = b
    \/ \E i \in 1..20 : a[i] < b[i] /\ \A k \in 1..(i - 1) : a[k] = b[k]

\* the integer value of the digit text d is at most 2^64 - 1
FitsU64(d) ==
    LET z == StripZeros(d)
    IN  Len(z) < 20 \/ (Len(z) = 20 /\ LexLeq(Pad20(z), MaxDigits))

Pow10(e) == IF e = 0 THEN 1 ELSE IF e = 1 THEN 10 ELSE IF e = 2 THEN 100
            ELSE IF e = 3 THEN 1000 ELSE 10000

\* the 20 decimal digits of a u64
LimbDigits(v) ==
    [k \in 1..20 |-> (v[((k - 1) \div 5) + 1] \div Pow10(4 - ((k - 1) % 5))) % 10]

\* C1 as stated: decoding a numeric-string field succeeds exactly when the text
\* is a non-empty run of decimal digits, and then yields its integer value.
C1_DigitsOnly ==
    pout.kind = "text" =>
        /\ pout.res.ok <=> (Len(pin.text) > 0 /\ AllDigits(pin.text))
        /\ pout.res.ok => LimbDigits(pout.res.v) = Pad20(StripZeros(pin.text))

\* C1 amended: decoding a numeric-string field succeeds exactly when the text
\* is an optional single leading "+" followed by a non-empty run of decimal
\* digits whose value is at most 2^64-1, and then yields that value; every
\* other text fails with a decode error and yields no value.
C1_PlusAndRange ==
    pout.kind = "text" =>
        LET d == PlusStripped(pin.text)
        IN  /\ pout.res.ok <=> (Len(d) > 0 /\ AllDigits(d) /\ FitsU64(d))
            /\ pout.res.ok => LimbDigits(pout.res.v) = Pad20(StripZeros(d))
            /\ ~pout.res.ok => pout.res.v = <<>> /\ pout.res.err.msg # "none"

C1_Witness ==
    /\ pout.kind = "text"
    /\ pin.text = <<"+", "1", "9">>
    /\ pout.res.ok
    /\ pout.res.v = U64FromNat(19)

\* whether the body of a response fails to decode for the operation op
DecodeFails(op, body) ==
    \/ ~body.valid
    \/ KindOf(op) = "stream" /\ \E i \in 1..Len(body.data) : ~DecodeStream(body.data[i]).ok
    \/ KindOf(op) = "user" /\ \E i \in 1..Len(body.data) : ~DecodeUser(body.data[i]).ok
    \/ KindOf(op) = "chatters" /\ body.chatter_count.t # "num"
    \/ KindOf(op) = "chatters" /\ ~DecodeUsers(body.chatters).ok

Buckets(u) == <<u.broadcaster, u.vips, u.moderators, u.staff, u.admins,
                u.global_mods, u.viewers>>

WireBuckets(w) == <<w.broadcaster.a, w.vips.a, w.moderators.a, w.staff.a,
                    w.admins.a, w.global_mods.a, w.viewers.a>>

\* the value is the whole decoded payload of the body
Complete(op, body, val) ==
    IF KindOf(op) = "chatters" THEN Buckets(val) = WireBuckets(body.chatters)
    ELSE /\ Len(val) = Len(body.data)
         /\ \A i \in 1..Len(val) :
               val[i] = IF KindOf(op) = "stream" THEN DecodeStream(body.data[i]).v
                        ELSE DecodeUser(body.data[i]).v

AllOrNothing(c, failing) ==
    /\ failing => /\ ~calls[c].result.ok
                  /\ calls[c].result.err.variant = "Reqwest"
                  /\ calls[c].result.val = <<>>
    /\ ~failing => /\ calls[c].result.ok
                   /\ calls[c].result.err.variant = "none"
                   /\ Complete(calls[c].op, calls[c].resp.body, calls[c].result.val)

\* C2 as stated: a transport failure, a non-2xx status or a body-decode failure
\* makes the operation return Error::Reqwest and no domain value; a result is
\* the complete decoded payload or an error.
C2_Non2xxFails ==
    \A c \in Callers : Done(c) =>
        AllOrNothing(c, \/ calls[c].resp.terr
                        \/ calls[c].resp.status \notin 200..299
                        \/ DecodeFails(calls[c].op, calls[c].resp.body))

\* C2 amended: a transport failure, a 4xx or 5xx status or a body-decode failure
\* (one malformed field of one element included) makes the operation return
\* Error::Reqwest and no domain value; otherwise the result is the complete
\* decoded payload, never a partial sequence.
C2_ErrorStatusFails ==
    \A c \in Callers : Done(c) =>
        AllOrNothing(c, \/ calls[c].resp.terr
                        \/ calls[c].resp.status >= 400
                        \/ DecodeFails(calls[c].op, calls[c].resp.body))

C2_Witness ==
    \E c \in Callers :
        /\ Done(c)
        /\ calls[c].op = "get_streams"
        /\ calls[c].resp.status = 200
        /\ calls[c].resp.body.data = <<WS1, WSBadTime>>
        /\ ~calls[c].result.ok

\* C3: a successful get_users_for(room) returns the caller's room, the
\* envelope's chatter_count and the seven buckets of the chatters object in
\* their order; a room or chatter_count inside the chatters object is not used.
C3_Stitched ==
    \A c \in Callers :
        (Done(c) /\ calls[c].op = "get_users_for" /\ calls[c].result.ok) =>
            /\ calls[c].result.val.room = calls[c].room
            /\ calls[c].result.val.chatter_count = calls[c].resp.body.chatter_count.n
            /\ Buckets(calls[c].result.val) = WireBuckets(calls[c].resp.body.chatters)

C3_Witness ==
    \E c \in Callers :
        /\ Done(c)
        /\ calls[c].op = "get_users_for"
        /\ calls[c].room = T_foo
        /\ calls[c].resp.body.chatters = WC1
        /\ calls[c].result.ok
        /\ calls[c].result.val.viewers = <<T_z, T_amy>>

KeyOf(op) ==
    CASE op = "get_streams" -> "user_login"
      [] op = "get_streams_from_id" -> "user_id"
      [] op = "get_users" -> "login"
      [] op = "get_users_from_id" -> "id"

LegalHeaderText(bytes) ==
    \A i \in 1..Len(bytes) : bytes[i] \notin ((0..8) \cup (10..31) \cup {127})

\* C5: Client::new fails with InvalidClientId when the client id is not a legal
\* header value, and with InvalidOAuthToken when the client id is legal and
\* the token is not; in both cases no client is produced, and a client that
\* is produced holds legal header values only.
C5_ConstructionFails ==
    newOut.state # "none" =>
        /\ ~LegalHeaderText(newIn.client_id) =>
              newOut.state = "Err" /\ newOut.error = "InvalidClientId"
        /\ (LegalHeaderText(newIn.client_id) /\ ~LegalHeaderText(newIn.oauth_token)) =>
              newOut.state = "Err" /\ newOut.error = "InvalidOAuthToken"
        /\ newOut.state = "Err" => newOut.client = NoClient /\ ~client.built
        /\ newOut.state = "Ok" =>
              /\ client = newOut.client
              /\ \A h \in client.headers : LegalHeaderText(h[2])

C5_Witness ==
    /\ newOut.state = "Err"
    /\ newOut.error = "InvalidClientId"
    /\ newIn.client_id = <<97, 10>>
    /\ ~client.built

HeaderValues(req, name) == {h[2] : h \in {g \in req.headers : g[1] = name}}

\* C6 as stated: every request carries Client-ID, and carries Authorization
\* if and only if a bearer credential was configured; a client built without
\* one (its token is empty) sends no Authorization header.
C6_BearerOptional ==
    \A c \in Callers : Issued(c) =>
        /\ HeaderValues(calls[c].req, "Client-ID") = {newIn.client_id}
        /\ HeaderValues(calls[c].req, "Authorization") # {} <=> newIn.oauth_token # <<>>

\* C6 amended: every request carries the Client-ID header set from the client
\* identity and the header Authorization: Bearer <token>; the token is a
\* required input of the construction, and an empty one is sent as well.
C6_BearerAlways ==
    \A c \in Callers : Issued(c) =>
        /\ HeaderValues(calls[c].req, "Client-ID") = {newIn.client_id}
        /\ HeaderValues(calls[c].req, "Authorization") = {Bearer(newIn.oauth_token)}

C6_Witness ==
    \E c \in Callers :
        /\ Issued(c)
        /\ calls[c].op = "get_users_for"
        /\ newIn.oauth_token = <<>>
        /\ <<"Authorization", Bearer(<<>>)>> \in calls[c].req.headers

\* C7: encoding a Stream or User with its own encoder and decoding the result
\* succeeds and reproduces every field.
C7_RoundTrip ==
    pout.kind \in {"user", "stream"} => pout.res.ok /\ pout.res.v = pin.rec

\* C8: an operation hands one request to the transport per call: none before
\* it is called, one while it awaits, and still one when it has returned,
\* with a value or with an error.
C8_OneRequest ==
    \A c \in Callers :
        /\ calls[c].nreq <= 1
        /\ calls[c].pc = "idle" => calls[c].nreq = 0
        /\ calls[c].pc \in {"awaiting", "done"} => calls[c].nreq = 1

C8_Witness ==
    \E c \in Callers :
        /\ Done(c)
        /\ calls[c].resp.status = 500
        /\ ~calls[c].result.ok
        /\ calls[c].nreq = 1

ExpectedUrl(op, room) ==
    IF op = "get_users_for"
    THEN [prefix |-> "https://tmi.twitch.tv/group/user", sep |-> "/", mid |-> room,
          suffix |-> "/chatters"]
    ELSE [prefix |-> "https://api.twitch.tv/helix", sep |-> "/",
          mid |-> IF KindOf(op) = "stream" THEN Ep_streams ELSE Ep_users, suffix |-> ""]

\* C9: the client is as it was constructed whatever the callers do, and with
\* two callers interleaved each request is the one the call's own arguments
\* give and each result the one its own response gives.
C9_Independent ==
    /\ client = newOut.client
    /\ \A c \in Callers : Issued(c) =>
          /\ calls[c].req.url = ExpectedUrl(calls[c].op, calls[c].room)
          /\ calls[c].req.query =
                [i \in 1..Len(calls[c].vals) |-> <<KeyOf(calls[c].op), calls[c].vals[i]>>]
          /\ calls[c].req.headers = newOut.client.headers
    /\ \A c \in Callers : Done(c) =>
          calls[c].result = IF calls[c].op = "get_users_for"
                            THEN UsersForResult(calls[c].room, calls[c].resp)
                            ELSE HelixResult(KindOf(calls[c].op), calls[c].resp)

C9_Witness ==
    /\ calls[1].pc = "done" /\ calls[1].op = "get_streams" /\ calls[1].vals = << <<"a">> >>
    /\ calls[2].pc = "awaiting" /\ calls[2].op = "get_users" /\ calls[2].vals = << <<"b">> >>
    /\ calls[2].nreq = 1

NumericOrTimeFailure(e) ==
    e.kind = "decode" /\ e.de.msg \in {"Empty", "InvalidDigit", "PosOverflow", "time parse error"}

\* C10: when a numeric-string field or started_at fails to decode, the error is
\* the Reqwest decode failure and retains the name of the field and the raw
\* wire value.
C10_ErrorRetains ==
    \A c \in Callers :
        (Done(c) /\ NumericOrTimeFailure(calls[c].result.err)) =>
            /\ calls[c].result.err.variant = "Reqwest"
            /\ calls[c].result.err.de.field # ""
            /\ calls[c].result.err.de.raw # <<>>

=============================================================================
